---- MODULE Spec2Model ----
(***************************************************************************)
(* Task store of the task-manager application: the CRUD, subtask and       *)
(* recurrence operations of js/taskManager.js over the persistence layer   *)
(* (the localStorage module that sits in js/calendar.js), and the views    *)
(* computed from the collection: filtering, sorting and statistics.        *)
(*                                                                         *)
(* Representation.  Strings that the code transforms (title, description)  *)
(* are sequences of one-character strings.  JavaScript null / undefined    *)
(* is a sentinel of the field's own type: NoId for an identifier, NoTime   *)
(* for a timestamp, NoDate for a date string, NoRecurring for a rule.      *)
(* A date string is <<year, month, day>>.  Time is an integer count of      *)
(* days, instants of the host clock are hours since 1 January 1970 UTC.    *)
(* The serialized length of the blob is                                    *)
(* measured in task records.  The createdAt / updatedAt stamps of a task   *)
(* are written by the code but never read by it and are not carried.       *)
(***************************************************************************)
EXTENDS Integers, Sequences, FiniteSets, TLC

VARIABLES
  tasks,    \* data.tasks of the persisted blob (localStorage[STORAGE_KEY])
  nextId,   \* the next identifier generateId() will hand out
  now,      \* the wall clock, in days
  last,     \* the last store operation: its arguments, result and outcome
  settings, \* data.settings of the persisted blob
  corrupt,  \* whether the string under STORAGE_KEY fails to parse
  app       \* the module state of app.js: the filters and sort in effect

vars == <<tasks, nextId, now, last, settings, corrupt, app>>

(***************************************************************************)
(* Bounds of the model.                                                    *)
(***************************************************************************)
MaxId  == 4     \* identifiers generateId() may hand out
MaxNow == 31    \* last day the clock reaches

(***************************************************************************)
(* Program constants.                                                      *)
(***************************************************************************)
MAX_STORAGE_SIZE == 3    \* capacity of the blob, in task records
TITLE_MAX        == 200  \* truncate(sanitizeString(title), 200)
RETENTION_DAYS   == 30   \* thirtyDaysAgo.getDate() - 30

NoId        == 0
NoTime      == -1
NoDate      == << >>
BadDate     == <<0>>
NoRecurring == [frequency |-> "none", interval |-> 0]

(***************************************************************************)
(* utils.js                                                                *)
(***************************************************************************)
Spaces(n) == [i \in 1..n |-> " "]

\* the characters div.innerHTML writes for one character of div.textContent
EscapeChar(c) ==
  CASE c = "&" -> <<"&", "a", "m", "p", ";">>
    [] c = "<" -> <<"&", "l", "t", ";">>
    [] c = ">" -> <<"&", "g", "t", ";">>
    [] OTHER   -> <<c>>

\* div.textContent = str; return div.innerHTML  (split in halves to keep
\* the evaluation shallow)
RECURSIVE sanitizeString(_)
sanitizeString(str) ==
  IF str = << >> THEN << >>
  ELSE IF Len(str) = 1 THEN EscapeChar(str[1])
  ELSE LET h == Len(str) \div 2
       IN sanitizeString(SubSeq(str, 1, h)) \o sanitizeString(SubSeq(str, h + 1, Len(str)))

\* String.prototype.trim
Trim(str) ==
  LET solid == {i \in DOMAIN str : str[i] # " "}
  IN IF solid = {} THEN << >>
     ELSE SubSeq(str, CHOOSE i \in solid : \A j \in 1..(i - 1) : str[j] = " ",
                      CHOOSE i \in solid : \A j \in (i + 1)..Len(str) : str[j] = " ")

truncate(str, maxLength) ==
  IF str = << >> \/ Len(str) <= maxLength THEN str
  ELSE Trim(SubSeq(str, 1, maxLength))

\* validateDate throws on a string Date cannot parse
IsValidDate(d) == Len(d) = 3

(***************************************************************************)
(* Calendar arithmetic of the host Date object (UTC fields).               *)
(***************************************************************************)
IsLeap(y) == (y % 4 = 0 /\ y % 100 # 0) \/ y % 400 = 0

DaysInMonth(y, m) ==
  CASE m \in {4, 6, 9, 11} -> 30
    [] m = 2 -> IF IsLeap(y) THEN 29 ELSE 28
    [] OTHER -> 31

\* Date normalisation: a month past December and a day past the month's
\* end roll over into the following year / month
RECURSIVE NormalizeDate(_, _, _)
NormalizeDate(y, m, d) ==
  IF m > 12 THEN NormalizeDate(y + 1, m - 12, d)
  ELSE IF d > DaysInMonth(y, m) THEN NormalizeDate(y, m + 1, d - DaysInMonth(y, m))
  ELSE <<y, m, d>>

\* the day before a date
PrevDay(date) ==
  LET y == date[1]
      m == date[2]
      d == date[3]
  IN IF d > 1 THEN <<y, m, d - 1>>
     ELSE IF m > 1 THEN <<y, m - 1, DaysInMonth(y, m - 1)>>
     ELSE <<y - 1, 12, 31>>

\* the days from 1 January 1970 to 1 January of year y
DaysBeforeYear(y) ==
  365 * (y - 1970) + ((y - 1969) \div 4) - ((y - 1901) \div 100) + ((y - 1601) \div 400)

RECURSIVE DaysBeforeMonth(_, _)
DaysBeforeMonth(y, m) ==
  IF m = 1 THEN 0 ELSE DaysBeforeMonth(y, m - 1) + DaysInMonth(y, m - 1)

\* the day count of a date since 1 January 1970
DayNumber(date) == DaysBeforeYear(date[1]) + DaysBeforeMonth(date[1], date[2]) + date[3] - 1

\* new Date("YYYY-MM-DD"): midnight UTC of the date, in hours since the epoch
Instant(date) == 24 * DayNumber(date)

\* the host time zones: hours east of UTC, fixed offsets
Zones == {-5, 0, 9}

\* today.setHours(0, 0, 0, 0): local midnight of local day `day`
LocalMidnight(day, zone) == 24 * day - zone

\* the local day an instant falls on
LocalDay(instant, zone) == (instant + zone) \div 24

(***************************************************************************)
(* storage (js/calendar.js)                                                *)
(***************************************************************************)
\* JSON.stringify(data).length, in task records
SerializedLength(ts) == Len(ts)

\* the filter of recovery strategy 1
KeptByStrategy1(task, clock) ==
  IF task.status = "completed" /\ task.completedAt # NoTime
  THEN task.completedAt > clock - RETENTION_DAYS
  ELSE TRUE

\* A save on a blob holding `persisted` yields the tasks of the blob
\* afterwards and the recovery strategies that ran.
RECURSIVE saveData(_, _, _)

\* data.tasks = tasks; saveData(data)
saveTasks(persisted, ts, clock) == saveData(persisted, ts, clock)

\* recovery reads the persisted tasks, not the data whose save failed
handleQuotaExceeded(persisted, clock) ==
  LET filtered    == SelectSeq(persisted, LAMBDA t : KeptByStrategy1(t, clock))
      activeTasks == SelectSeq(persisted, LAMBDA t : t.status = "active")
  IN IF Len(filtered) < Len(persisted)
     THEN LET r == saveTasks(persisted, filtered, clock)
          IN [tasks |-> r.tasks, recovery |-> <<"strategy1">> \o r.recovery]
     ELSE LET r == saveTasks(persisted, activeTasks, clock)
          IN [tasks |-> r.tasks, recovery |-> <<"strategy2">> \o r.recovery]

\* the size check of saveData; the data of a failed save is not written
saveData(persisted, ts, clock) ==
  IF SerializedLength(ts) > MAX_STORAGE_SIZE
  THEN handleQuotaExceeded(persisted, clock)
  ELSE [tasks |-> ts, recovery |-> << >>]

(***************************************************************************)
(* taskManager.js                                                          *)
(***************************************************************************)
Priorities == {"low", "medium", "high"}

NoTask ==
  [id |-> NoId, title |-> << >>, description |-> << >>, priority |-> "",
   status |-> "", tags |-> << >>, dueDate |-> NoDate, parentId |-> NoId,
   subtasks |-> << >>, recurring |-> NoRecurring, completedAt |-> NoTime]

\* the outcome of a store call: the blob's tasks afterwards, the next
\* fresh identifier, the value returned (result, and next for the nextTask
\* of a recurrence), the error thrown ("" for none) and the recovery
\* strategies run by the saves of the call
Outcome(ts, nid, result, error, recovery) ==
  [tasks |-> ts, nextId |-> nid, result |-> result, next |-> NoTask,
   error |-> error, recovery |-> recovery]

\* a create that stores the priority it is given
createTaskKeepPriority(persisted, nid, clock, taskData) ==
  IF taskData.title = << >> \/ Len(Trim(taskData.title)) = 0
  THEN Outcome(persisted, nid, NoTask, "Task title is required", << >>)
  ELSE IF taskData.dueDate # NoDate /\ ~IsValidDate(taskData.dueDate)
  THEN Outcome(persisted, nid, NoTask, "Invalid date format", << >>)
  ELSE
    LET task ==
          [id          |-> nid,
           title       |-> truncate(sanitizeString(taskData.title), TITLE_MAX),
           description |-> IF taskData.description # << >>
                           THEN sanitizeString(taskData.description) ELSE << >>,
           priority    |-> taskData.priority,
           status      |-> "active",
           tags        |-> taskData.tags,
           dueDate     |-> taskData.dueDate,
           parentId    |-> taskData.parentId,
           subtasks    |-> << >>,
           recurring   |-> taskData.recurring,
           completedAt |-> NoTime]
        saved == saveTasks(persisted, Append(persisted, task), clock)
    IN Outcome(saved.tasks, nid + 1, task, "", saved.recovery)

createTask(persisted, nid, clock, taskData) ==
  IF taskData.title = << >> \/ Len(Trim(taskData.title)) = 0
  THEN Outcome(persisted, nid, NoTask, "Task title is required", << >>)
  ELSE IF taskData.dueDate # NoDate /\ ~IsValidDate(taskData.dueDate)
  THEN Outcome(persisted, nid, NoTask, "Invalid date format", << >>)
  ELSE
    LET task ==
          [id          |-> nid,
           title       |-> truncate(sanitizeString(taskData.title), TITLE_MAX),
           description |-> IF taskData.description # << >>
                           THEN sanitizeString(taskData.description) ELSE << >>,
           priority    |-> IF taskData.priority \in Priorities
                           THEN taskData.priority ELSE "medium",
           status      |-> "active",
           tags        |-> taskData.tags,
           dueDate     |-> taskData.dueDate,
           parentId    |-> taskData.parentId,
           subtasks    |-> << >>,
           recurring   |-> taskData.recurring,
           completedAt |-> NoTime]
        saved == saveTasks(persisted, Append(persisted, task), clock)
    IN Outcome(saved.tasks, nid + 1, task, "", saved.recovery)

\* tasks.findIndex(t => t.id === id): the first position, 0 for -1
FindIndex(ts, id) ==
  IF \E i \in DOMAIN ts : ts[i].id = id
  THEN CHOOSE i \in DOMAIN ts : ts[i].id = id /\ \A j \in 1..(i - 1) : ts[j].id # id
  ELSE 0

getTaskById(ts, id) ==
  IF FindIndex(ts, id) = 0 THEN NoTask ELSE ts[FindIndex(ts, id)]

\* { ...task, ...updates }: a patch is the set of the fields it carries
\* (has) and their values (fields)
Merge(task, updates) ==
  [f \in DOMAIN task |-> IF f \in updates.has THEN updates.fields[f] ELSE task[f]]

Patch(has, fields) == [has |-> has, fields |-> fields]

StatusPatch(status) == Patch({"status"}, [NoTask EXCEPT !.status = status])

\* a status transition that stamps completedAt on every completion
StatusChangeRestamp(merged, updates, clock) ==
  IF "status" \in updates.has /\ updates.fields.status = "completed"
  THEN [merged EXCEPT !.completedAt = clock]
  ELSE IF "status" \in updates.has /\ updates.fields.status = "active"
  THEN [merged EXCEPT !.completedAt = NoTime]
  ELSE merged

\* the status transition rule applied after the merge
StatusChange(merged, updates, clock) ==
  IF "status" \in updates.has /\ updates.fields.status = "completed"
     /\ merged.completedAt = NoTime
  THEN [merged EXCEPT !.completedAt = clock]
  ELSE IF "status" \in updates.has /\ updates.fields.status = "active"
  THEN [merged EXCEPT !.completedAt = NoTime]
  ELSE merged

updateTask(persisted, nid, clock, id, updates) ==
  LET index == FindIndex(persisted, id) IN
  IF index = 0
  THEN Outcome(persisted, nid, NoTask, "Task not found", << >>)
  ELSE IF "title" \in updates.has
          /\ (updates.fields.title = << >> \/ Len(Trim(updates.fields.title)) = 0)
  THEN Outcome(persisted, nid, NoTask, "Task title cannot be empty", << >>)
  ELSE IF "priority" \in updates.has /\ updates.fields.priority \notin Priorities
  THEN Outcome(persisted, nid, NoTask, "Invalid priority value", << >>)
  ELSE IF "dueDate" \in updates.has /\ updates.fields.dueDate # NoDate
          /\ ~IsValidDate(updates.fields.dueDate)
  THEN Outcome(persisted, nid, NoTask, "Invalid date format", << >>)
  ELSE
    LET validated ==
          [updates EXCEPT
             !.fields.title = IF "title" \in updates.has
                              THEN truncate(sanitizeString(@), TITLE_MAX) ELSE @,
             !.fields.description = IF "description" \in updates.has
                                    THEN sanitizeString(@) ELSE @]
        task == StatusChange(Merge(persisted[index], validated), validated, clock)
        saved == saveTasks(persisted, [persisted EXCEPT ![index] = task], clock)
    IN Outcome(saved.tasks, nid, task, "", saved.recovery)

\* a delete that cascades to the children of the task
deleteTaskCascade(persisted, nid, clock, id) ==
  LET filteredTasks == SelectSeq(persisted, LAMBDA t : t.id # id /\ t.parentId # id) IN
  IF Len(filteredTasks) = Len(persisted)
  THEN Outcome(persisted, nid, NoTask, "Task not found", << >>)
  ELSE LET saved == saveTasks(persisted, filteredTasks, clock)
       IN Outcome(saved.tasks, nid, NoTask, "", saved.recovery)

deleteTask(persisted, nid, clock, id) ==
  LET filteredTasks == SelectSeq(persisted, LAMBDA t : t.id # id) IN
  IF Len(filteredTasks) = Len(persisted)
  THEN Outcome(persisted, nid, NoTask, "Task not found", << >>)
  ELSE LET saved == saveTasks(persisted, filteredTasks, clock)
       IN Outcome(saved.tasks, nid, NoTask, "", saved.recovery)

Toggled(status) == IF status = "active" THEN "completed" ELSE "active"

toggleTaskStatus(persisted, nid, clock, id) ==
  LET task == getTaskById(persisted, id) IN
  IF task = NoTask
  THEN Outcome(persisted, nid, NoTask, "Task not found", << >>)
  ELSE updateTask(persisted, nid, clock, id, StatusPatch(Toggled(task.status)))

\* the `updates` object after updateTask(id, updates) has returned or
\* thrown: the validation writes the escaped title and description into the
\* caller's object
UpdatesAfter(persisted, id, updates) ==
  IF FindIndex(persisted, id) = 0 THEN updates
  ELSE IF "title" \in updates.has
          /\ (updates.fields.title = << >> \/ Len(Trim(updates.fields.title)) = 0)
  THEN updates
  ELSE [updates EXCEPT
          !.fields.title = IF "title" \in updates.has
                           THEN truncate(sanitizeString(@), TITLE_MAX) ELSE @,
          !.fields.description = IF "description" \in updates.has
                                 THEN sanitizeString(@) ELSE @]

\* taskIds.forEach over the ids that remain; the outcome carries the count
\* as result
RECURSIVE bulkUpdateFrom(_, _, _, _, _, _, _)
bulkUpdateFrom(persisted, nid, clock, taskIds, updates, count, recovery) ==
  IF taskIds = << >>
  THEN [tasks |-> persisted, nextId |-> nid, result |-> count, next |-> NoTask,
        error |-> "", recovery |-> recovery]
  ELSE LET o == updateTask(persisted, nid, clock, Head(taskIds), updates)
       IN bulkUpdateFrom(o.tasks, nid, clock, Tail(taskIds),
                         UpdatesAfter(persisted, Head(taskIds), updates),
                         IF o.error = "" THEN count + 1 ELSE count,
                         recovery \o o.recovery)

bulkUpdateTasks(persisted, nid, clock, taskIds, updates) ==
  bulkUpdateFrom(persisted, nid, clock, taskIds, updates, 0, << >>)

RECURSIVE bulkDeleteFrom(_, _, _, _, _, _)
bulkDeleteFrom(persisted, nid, clock, taskIds, count, recovery) ==
  IF taskIds = << >>
  THEN [tasks |-> persisted, nextId |-> nid, result |-> count, next |-> NoTask,
        error |-> "", recovery |-> recovery]
  ELSE LET o == deleteTask(persisted, nid, clock, Head(taskIds))
       IN bulkDeleteFrom(o.tasks, nid, clock, Tail(taskIds),
                         IF o.error = "" THEN count + 1 ELSE count,
                         recovery \o o.recovery)

bulkDeleteTasks(persisted, nid, clock, taskIds) ==
  bulkDeleteFrom(persisted, nid, clock, taskIds, 0, << >>)

createSubtask(persisted, nid, clock, parentId, subtaskData) ==
  LET taskIndex == FindIndex(persisted, parentId) IN
  IF taskIndex = 0
  THEN Outcome(persisted, nid, NoTask, "Parent task not found", << >>)
  ELSE
    LET created == createTask(persisted, nid, clock,
                              [subtaskData EXCEPT !.parentId = parentId])
    IN IF created.error # "" THEN created
       ELSE
         \* `tasks` is the array read before createTask wrote its own
         LET parentTask == [persisted[taskIndex] EXCEPT
                              !.subtasks = Append(@, created.result.id)]
             saved == saveTasks(created.tasks,
                                [persisted EXCEPT ![taskIndex] = parentTask], clock)
         IN Outcome(saved.tasks, created.nextId, created.result, "",
                    created.recovery \o saved.recovery)

getSubtasks(ts, parentId) == SelectSeq(ts, LAMBDA t : t.parentId = parentId)

\* a roll-up that reopens a completed parent whenever a subtask is open
updateParentTaskProgressEager(persisted, nid, clock, parentId) ==
  LET subtasks     == SelectSeq(persisted, LAMBDA t : t.parentId = parentId)
      allCompleted == \A i \in DOMAIN subtasks : subtasks[i].status = "completed"
      parentTask   == getTaskById(persisted, parentId)
  IN IF Len(subtasks) = 0
     THEN Outcome(persisted, nid, NoTask, "", << >>)
     ELSE IF allCompleted
     THEN updateTask(persisted, nid, clock, parentId, StatusPatch("completed"))
     ELSE IF parentTask # NoTask /\ parentTask.status = "completed"
     THEN updateTask(persisted, nid, clock, parentId, StatusPatch("active"))
     ELSE Outcome(persisted, nid, NoTask, "", << >>)

updateParentTaskProgress(persisted, nid, clock, parentId) ==
  LET subtasks     == getSubtasks(persisted, parentId)
      allCompleted == \A i \in DOMAIN subtasks : subtasks[i].status = "completed"
      anyCompleted == \E i \in DOMAIN subtasks : subtasks[i].status = "completed"
      parentTask   == getTaskById(persisted, parentId)
  IN IF Len(subtasks) = 0
     THEN Outcome(persisted, nid, NoTask, "", << >>)
     ELSE IF allCompleted
     THEN updateTask(persisted, nid, clock, parentId, StatusPatch("completed"))
     ELSE IF anyCompleted /\ parentTask # NoTask /\ parentTask.status = "completed"
     THEN updateTask(persisted, nid, clock, parentId, StatusPatch("active"))
     ELSE Outcome(persisted, nid, NoTask, "", << >>)

\* new Date(dueDate) is midnight UTC of the due date; setDate / setMonth work
\* on the fields of that instant in the host's zone (a fixed offset of
\* `zone` hours), and toISOString gives the UTC date of the result
calculateNextOccurrenceAt(task, zone) ==
  IF task.recurring = NoRecurring \/ task.dueDate = NoDate THEN NoDate
  ELSE
    LET dayBefore == LocalDay(Instant(task.dueDate), zone) < DayNumber(task.dueDate)
        local == IF dayBefore THEN PrevDay(task.dueDate) ELSE task.dueDate
        y == local[1]
        m == local[2]
        d == local[3]
        interval == task.recurring.interval
        nextDate ==
          CASE task.recurring.frequency = "daily"   -> NormalizeDate(y, m, d + interval)
            [] task.recurring.frequency = "weekly"  -> NormalizeDate(y, m, d + 7 * interval)
            [] task.recurring.frequency = "monthly" -> NormalizeDate(y, m + interval, d)
            [] OTHER -> NoDate
    IN IF nextDate = NoDate THEN NoDate
       ELSE IF dayBefore THEN NormalizeDate(nextDate[1], nextDate[2], nextDate[3] + 1)
       ELSE nextDate

\* the store runs on a host in UTC
calculateNextOccurrence(task) == calculateNextOccurrenceAt(task, 0)

createNextRecurrence(persisted, nid, clock, task) ==
  IF task.recurring = NoRecurring
  THEN Outcome(persisted, nid, NoTask, "", << >>)
  ELSE IF calculateNextOccurrence(task) = NoDate
  THEN Outcome(persisted, nid, NoTask, "", << >>)
  ELSE createTask(persisted, nid, clock,
                  [title |-> task.title, description |-> task.description,
                   priority |-> task.priority, tags |-> task.tags,
                   dueDate |-> calculateNextOccurrence(task),
                   recurring |-> task.recurring, parentId |-> NoId])

\* the outcome carries updatedTask as result and nextTask as next
toggleTaskStatusWithRecurrence(persisted, nid, clock, id) ==
  LET task == getTaskById(persisted, id) IN
  IF task = NoTask
  THEN Outcome(persisted, nid, NoTask, "Task not found", << >>)
  ELSE
    LET newStatus == Toggled(task.status)
        updated   == updateTask(persisted, nid, clock, id, StatusPatch(newStatus))
    IN IF newStatus = "completed" /\ task.recurring # NoRecurring /\ task.parentId = NoId
       THEN LET next == createNextRecurrence(updated.tasks, nid, clock, task)
            IN [tasks |-> next.tasks, nextId |-> next.nextId,
                result |-> IF next.error = "" THEN updated.result ELSE NoTask,
                next |-> next.result, error |-> next.error,
                recovery |-> updated.recovery \o next.recovery]
       ELSE updated

(***************************************************************************)
(* Filtering and sorting.                                                  *)
(***************************************************************************)
\* String.prototype.toLowerCase, on the letters the model's texts use
LowerChar(c) ==
  CASE c = "A" -> "a"
    [] c = "B" -> "b"
    [] OTHER   -> c

ToLowerCase(str) == [i \in DOMAIN str |-> LowerChar(str[i])]

\* String.prototype.includes
Includes(str, query) ==
  \E i \in 1..(Len(str) - Len(query) + 1) : SubSeq(str, i, i + Len(query) - 1) = query

\* a filter record; an absent criterion is "", << >>, NoDate or FALSE
Filters(status, priority, search, dateFrom, dateTo, showOverdueOnly) ==
  [status |-> status, priority |-> priority, search |-> search,
   dateFrom |-> dateFrom, dateTo |-> dateTo, showOverdueOnly |-> showOverdueOnly]

\* a filter that takes a task passing any one of its criteria
filterTasksAny(ts, filters, today, zone) ==
  LET query == Trim(ToLowerCase(filters.search))
      MatchesOne(t) ==
        \/ filters.status # "" /\ filters.status # "all" /\ t.status = filters.status
        \/ filters.priority # "" /\ filters.priority # "all" /\ t.priority = filters.priority
        \/ /\ Len(Trim(filters.search)) > 0
           /\ \/ Includes(ToLowerCase(t.title), query)
              \/ t.description # << >> /\ Includes(ToLowerCase(t.description), query)
        \/ /\ filters.dateFrom # NoDate /\ t.dueDate # NoDate
           /\ Instant(t.dueDate) >= Instant(filters.dateFrom)
        \/ /\ filters.dateTo # NoDate /\ t.dueDate # NoDate
           /\ Instant(t.dueDate) <= Instant(filters.dateTo)
        \/ /\ filters.showOverdueOnly /\ t.status = "active" /\ t.dueDate # NoDate
           /\ Instant(t.dueDate) < LocalMidnight(today, zone)
      none == /\ filters.status \in {"", "all"} /\ filters.priority \in {"", "all"}
              /\ Len(Trim(filters.search)) = 0 /\ filters.dateFrom = NoDate
              /\ filters.dateTo = NoDate /\ ~filters.showOverdueOnly
  IN IF none THEN ts ELSE SelectSeq(ts, MatchesOne)

filterTasks(ts, filters, today, zone) ==
  LET query == Trim(ToLowerCase(filters.search))
      byStatus ==
        IF filters.status # "" /\ filters.status # "all"
        THEN SelectSeq(ts, LAMBDA t : t.status = filters.status) ELSE ts
      byPriority ==
        IF filters.priority # "" /\ filters.priority # "all"
        THEN SelectSeq(byStatus, LAMBDA t : t.priority = filters.priority) ELSE byStatus
      bySearch ==
        IF filters.search # << >> /\ Len(Trim(filters.search)) > 0
        THEN SelectSeq(byPriority, LAMBDA t :
               \/ Includes(ToLowerCase(t.title), query)
               \/ t.description # << >> /\ Includes(ToLowerCase(t.description), query))
        ELSE byPriority
      byDateFrom ==
        IF filters.dateFrom # NoDate
        THEN SelectSeq(bySearch, LAMBDA t :
               t.dueDate # NoDate /\ Instant(t.dueDate) >= Instant(filters.dateFrom))
        ELSE bySearch
      byDateTo ==
        IF filters.dateTo # NoDate
        THEN SelectSeq(byDateFrom, LAMBDA t :
               t.dueDate # NoDate /\ Instant(t.dueDate) <= Instant(filters.dateTo))
        ELSE byDateFrom
      overdue ==
        IF filters.showOverdueOnly
        THEN SelectSeq(byDateTo, LAMBDA t :
               /\ t.status = "active"
               /\ t.dueDate # NoDate
               /\ Instant(t.dueDate) < LocalMidnight(today, zone))
        ELSE byDateTo
  IN overdue

\* priorityOrder[p]; 0 stands for undefined
PriorityOrder(p) ==
  CASE p = "high"   -> 3
    [] p = "medium" -> 2
    [] p = "low"    -> 1
    [] OTHER        -> 0

\* a comparator that ranks priorities from low to high
CompareLowFirst(a, b, sortBy, sortOrder) ==
  IF sortBy = "dueDate" /\ a.dueDate = NoDate /\ b.dueDate = NoDate THEN 0
  ELSE IF sortBy = "dueDate" /\ a.dueDate = NoDate THEN 1
  ELSE IF sortBy = "dueDate" /\ b.dueDate = NoDate THEN -1
  ELSE
    LET comparison ==
          CASE sortBy = "dueDate"  -> Instant(a.dueDate) - Instant(b.dueDate)
            [] sortBy = "priority" ->
                 IF PriorityOrder(a.priority) = 0 \/ PriorityOrder(b.priority) = 0
                 THEN 0
                 ELSE PriorityOrder(a.priority) - PriorityOrder(b.priority)
            [] OTHER -> 0
    IN IF sortOrder = "asc" THEN comparison ELSE -comparison

\* a comparator whose order flag also negates the place of tasks without
\* a due date
CompareNegateAll(a, b, sortBy, sortOrder) ==
  LET comparison ==
        CASE sortBy = "dueDate" ->
               IF a.dueDate = NoDate /\ b.dueDate = NoDate THEN 0
               ELSE IF a.dueDate = NoDate THEN 1
               ELSE IF b.dueDate = NoDate THEN -1
               ELSE Instant(a.dueDate) - Instant(b.dueDate)
          [] sortBy = "priority" ->
               IF PriorityOrder(a.priority) = 0 \/ PriorityOrder(b.priority) = 0
               THEN 0
               ELSE PriorityOrder(b.priority) - PriorityOrder(a.priority)
          [] OTHER -> 0
  IN IF sortOrder = "asc" THEN comparison ELSE -comparison

\* the comparator of sortTasks, on the fields of a task the model carries;
\* a difference with an undefined rank is NaN, which sort takes as 0
Compare(a, b, sortBy, sortOrder) ==
  IF sortBy = "dueDate" /\ a.dueDate = NoDate /\ b.dueDate = NoDate THEN 0
  ELSE IF sortBy = "dueDate" /\ a.dueDate = NoDate THEN 1
  ELSE IF sortBy = "dueDate" /\ b.dueDate = NoDate THEN -1
  ELSE
    LET comparison ==
          CASE sortBy = "dueDate"  -> Instant(a.dueDate) - Instant(b.dueDate)
            [] sortBy = "priority" ->
                 IF PriorityOrder(a.priority) = 0 \/ PriorityOrder(b.priority) = 0
                 THEN 0
                 ELSE PriorityOrder(b.priority) - PriorityOrder(a.priority)
            [] OTHER -> 0
    IN IF sortOrder = "asc" THEN comparison ELSE -comparison

Reverse(seq) == [i \in DOMAIN seq |-> seq[Len(seq) + 1 - i]]

\* Array.prototype.sort on a copy: the stable order under the comparator
StableSort(ts, sortBy, sortOrder) ==
  LET Before(j, i) ==
        \/ Compare(ts[j], ts[i], sortBy, sortOrder) < 0
        \/ Compare(ts[j], ts[i], sortBy, sortOrder) = 0 /\ j < i
      Position(i) == 1 + Cardinality({j \in DOMAIN ts : Before(j, i)})
  IN [k \in DOMAIN ts |-> ts[CHOOSE i \in DOMAIN ts : Position(i) = k]]

\* a sort that gets the descending order by reversing the ascending one
sortTasksByReversal(ts, sortBy, sortOrder) ==
  IF sortOrder = "asc" THEN StableSort(ts, sortBy, "asc")
  ELSE Reverse(StableSort(ts, sortBy, "asc"))

sortTasks(ts, sortBy, sortOrder) == StableSort(ts, sortBy, sortOrder)

(***************************************************************************)
(* Statistics.                                                             *)
(***************************************************************************)
\* the counters of the single pass; today is the local day and the due
\* date of a task is brought to its local midnight before it is compared
calculateStatistics(ts, today, zone) ==
  LET Count(P(_)) == Cardinality({i \in DOMAIN ts : P(ts[i])})
      DueDay(t)   == LocalDay(Instant(t.dueDate), zone)
      Dated(t)    == t.status = "active" /\ t.dueDate # NoDate
      weekFromNow      == today + 7
      threeDaysFromNow == today + 3
      completed == Count(LAMBDA t : t.status = "completed")
      dueToday  == Count(LAMBDA t : Dated(t) /\ DueDay(t) = today)
  IN [total       |-> Len(ts),
      active      |-> Count(LAMBDA t : t.status = "active"),
      completed   |-> completed,
      overdue     |-> Count(LAMBDA t : Dated(t) /\ DueDay(t) < today),
      completionRate |-> IF Len(ts) > 0
                         THEN (200 * completed + Len(ts)) \div (2 * Len(ts)) ELSE 0,
      byPriority  |-> [high   |-> Count(LAMBDA t : t.priority = "high"),
                       medium |-> Count(LAMBDA t : t.priority = "medium"),
                       low    |-> Count(LAMBDA t : t.priority = "low")],
      dueToday    |-> dueToday,
      dueThisWeek |-> Count(LAMBDA t : Dated(t) /\ DueDay(t) >= today
                                        /\ DueDay(t) <= weekFromNow),
      \* stats.dueSoon++ in the due-today branch and in the due-this-week one
      dueSoon     |-> dueToday + Count(LAMBDA t : Dated(t) /\ DueDay(t) >= today
                                                   /\ DueDay(t) <= weekFromNow
                                                   /\ DueDay(t) <= threeDaysFromNow),
      noDueDate   |-> Count(LAMBDA t : t.status = "active" /\ t.dueDate = NoDate)]

(***************************************************************************)
(* The gateway's import, whose contract is the gateway section of the      *)
(* specification; it persists through saveTasks.                           *)
(***************************************************************************)
\* importTasks(file): the tasks of the file whose identifier the collection
\* does not hold are merged in and the collection is saved; the count of
\* those tasks is returned
importTasks(persisted, nid, clock, file) ==
  LET present == {persisted[i].id : i \in DOMAIN persisted}
      added   == SelectSeq(file, LAMBDA t : t.id \notin present)
      saved   == saveTasks(persisted, persisted \o added, clock)
  IN Outcome(saved.tasks, nid, Len(added), "", saved.recovery)

(***************************************************************************)
(* Start-up and settings of the storage module (js/calendar.js).           *)
(***************************************************************************)
CURRENT_VERSION == "1.0.0"

\* the settings initStorage writes into a new blob
DefaultSettings == [lastFilter |-> "all", sortBy |-> "dueDate", sortOrder |-> "asc"]

\* the structure initStorage writes when nothing is stored
InitialData ==
  [version |-> CURRENT_VERSION, tasks |-> << >>, settings |-> DefaultSettings]

NoData == [version |-> "", tasks |-> << >>, settings |-> << >>]

\* the outcome of a start-up call: the tasks and settings of the blob
\* afterwards, whether its string still fails to parse, the data returned
\* and the error thrown ("" for none)
Started(ts, st, unparsable, result, error) ==
  [tasks |-> ts, settings |-> st, corrupt |-> unparsable, result |-> result,
   error |-> error]

RECURSIVE initStorage(_, _, _, _, _)

\* a handler that resets the store without asking
handleStorageErrorSilent(ts, st, unparsable, shouldReset) ==
  initStorage(FALSE, ts, st, unparsable, TRUE)

\* confirm(...): on acceptance the blob is removed and initStorage runs on
\* the empty store; on refusal the error is thrown again
handleStorageError(ts, st, unparsable, shouldReset) ==
  IF shouldReset
  THEN initStorage(FALSE, ts, st, unparsable, shouldReset)
  ELSE Started(ts, st, unparsable, NoData, "SyntaxError")

\* `present`: whether a string is stored under STORAGE_KEY; the program
\* writes no version but CURRENT_VERSION
initStorage(present, ts, st, unparsable, shouldReset) ==
  IF ~present
  THEN Started(<< >>, DefaultSettings, FALSE, InitialData, "")
  ELSE IF unparsable
  THEN handleStorageError(ts, st, unparsable, shouldReset)
  ELSE Started(ts, st, FALSE,
               [version |-> CURRENT_VERSION, tasks |-> ts, settings |-> st], "")

\* getData().settings
getSettings(st) == st

\* data.settings = {...data.settings, ...settings}; saveData(data).
\* `refused`: the write is refused for capacity, by the size check of
\* saveData or by a QuotaExceededError of localStorage.setItem
saveSettings(persisted, st, updates, clock, refused) ==
  IF refused \/ SerializedLength(persisted) > MAX_STORAGE_SIZE
  THEN LET r == handleQuotaExceeded(persisted, clock)
       IN [tasks |-> r.tasks, settings |-> st, recovery |-> r.recovery]
  ELSE [tasks |-> persisted,
        settings |-> [k \in DOMAIN st \cup DOMAIN updates |->
                        IF k \in DOMAIN updates THEN updates[k] ELSE st[k]],
        recovery |-> << >>]

(***************************************************************************)
(* The application (js/app.js, js/dragDrop.js).                            *)
(***************************************************************************)
\* the module state app.js is loaded with
AppDefaults ==
  [currentFilter |-> "all", currentPriorityFilter |-> "all",
   currentSortBy |-> "dueDate", currentSortOrder |-> "asc"]

\* loadSettings: a setting that is set replaces the module's value
loadSettings(state, st) ==
  LET read == getSettings(st)
  IN [state EXCEPT
        !.currentFilter    = IF read.lastFilter # "" THEN read.lastFilter ELSE @,
        !.currentSortBy    = IF read.sortBy # "" THEN read.sortBy ELSE @,
        !.currentSortOrder = IF read.sortOrder # "" THEN read.sortOrder ELSE @]

\* persistSettings: the status filter and the sort are saved
persistSettings(persisted, st, state, clock, refused) ==
  saveSettings(persisted, st,
               [lastFilter |-> state.currentFilter, sortBy |-> state.currentSortBy,
                sortOrder |-> state.currentSortOrder],
               clock, refused)

\* handleToggleTaskStatus: the toggle, then the progress of the parent when
\* the task read beforehand names one; an error thrown by either is caught
\* and reported to the user
handleToggleTaskStatus(persisted, nid, clock, taskId) ==
  LET task    == getTaskById(persisted, taskId)
      toggled == toggleTaskStatusWithRecurrence(persisted, nid, clock, taskId)
      parent  == updateParentTaskProgress(toggled.tasks, toggled.nextId, clock,
                                          task.parentId)
  IN IF toggled.error # ""
     THEN [toggled EXCEPT !.error = "Failed to update task status"]
     ELSE IF task # NoTask /\ task.parentId # NoId
     THEN [parent EXCEPT
             !.result   = toggled.result,
             !.next     = toggled.next,
             !.error    = IF parent.error # ""
                          THEN "Failed to update task status" ELSE "",
             !.recovery = toggled.recovery \o parent.recovery]
     ELSE toggled

\* reorderTasks (js/dragDrop.js).  new Map(tasks.map(task => [task.id,
\* task])) keeps one entry per id, at the place of the first record with
\* the id and with the last such record as its value; forEach over
\* taskOrder moves the entries named, each at its first mention, and the
\* entries left follow in the order of the map.
reorderTasks(ts, taskOrder) ==
  LET keys    == [i \in DOMAIN ts |-> ts[i].id]
      first   == {i \in DOMAIN ts : \A j \in 1..(i - 1) : ts[j].id # ts[i].id}
      mapKeys == [k \in 1..Cardinality(first) |->
                    keys[CHOOSE i \in first :
                           Cardinality({j \in first : j < i}) = k - 1]]
      get(id) == ts[CHOOSE i \in DOMAIN ts :
                      ts[i].id = id /\ \A j \in (i + 1)..Len(ts) : ts[j].id # id]
      has(id) == \E k \in DOMAIN mapKeys : mapKeys[k] = id
      hits    == {i \in DOMAIN taskOrder :
                    /\ has(taskOrder[i])
                    /\ \A j \in 1..(i - 1) : taskOrder[j] # taskOrder[i]}
      named   == [k \in 1..Cardinality(hits) |->
                    taskOrder[CHOOSE i \in hits :
                                Cardinality({j \in hits : j < i}) = k - 1]]
      left    == SelectSeq(mapKeys,
                           LAMBDA id : \A i \in DOMAIN taskOrder : taskOrder[i] # id)
      order   == named \o left
  IN [k \in DOMAIN order |-> get(order[k])]

\* handleTasksReordered: the whole collection is read, reordered by the
\* order of the rows on display, and saved
handleTasksReordered(persisted, nid, clock, newOrder) ==
  LET saved == saveTasks(persisted, reorderTasks(persisted, newOrder), clock)
  IN Outcome(saved.tasks, nid, NoTask, "", saved.recovery)

\* init(): initStorage(), then loadSettings() into the freshly loaded
\* module unless initStorage threw
init(present, ts, st, unparsable, shouldReset) ==
  LET started == initStorage(present, ts, st, unparsable, shouldReset)
  IN [started |-> started,
      app |-> IF started.error = ""
              THEN loadSettings(AppDefaults, started.settings)
              ELSE AppDefaults]

(***************************************************************************)
(* The state machine.                                                      *)
(***************************************************************************)
\* the record of the last store call: the operation, the error it threw
\* ("" for none) and the recovery strategies its saves ran
Call(op, o) == [op |-> op, error |-> o.error, recovery |-> o.recovery]

\* init() has run on an empty store: initStorage wrote the initial blob and
\* loadSettings read its settings
AppStarted ==
  /\ settings = init(FALSE, << >>, << >>, FALSE, FALSE).started.settings
  /\ corrupt = FALSE
  /\ app = init(FALSE, << >>, << >>, FALSE, FALSE).app

Init ==
  /\ tasks = << >>
  /\ nextId = 1
  /\ now = 0
  /\ last = [op |-> "init", error |-> "", recovery |-> << >>]
  /\ AppStarted

TaskData(title, description, priority, dueDate, recurring, tags) ==
  [title |-> title, description |-> description, priority |-> priority,
   dueDate |-> dueDate, recurring |-> recurring, tags |-> tags,
   parentId |-> NoId]

Monthly == [frequency |-> "monthly", interval |-> 1]
Daily   == [frequency |-> "daily", interval |-> 1]
Yearly  == [frequency |-> "yearly", interval |-> 1]
Jan31   == <<2024, 1, 31>>

\* the task data the callers submit: a plain task, a recurring one whose
\* texts need escaping, a blank title, an unparsable date
PlainData     == TaskData(<<"a">>, << >>, "", NoDate, NoRecurring, << >>)
RecurringData == TaskData(<<"&">>, <<"<">>, "urgent", Jan31, Monthly, <<"work">>)
BlankData     == TaskData(<<" ">>, << >>, "", NoDate, NoRecurring, << >>)
BadDateData   == TaskData(<<"a">>, << >>, "", BadDate, NoRecurring, << >>)

TaskDataSet == {PlainData, BlankData, BadDateData}

\* the data of the recurrence runs: rules with an unrecognised frequency,
\* without a due date, and a title that is blank in its first 200 characters
RecurrenceDataSet ==
  { PlainData, RecurringData,
    TaskData(<<"a">>, << >>, "high", Jan31, Yearly, << >>),
    TaskData(<<"a">>, << >>, "", NoDate, Daily, << >>),
    TaskData(Spaces(TITLE_MAX) \o <<"a">>, << >>, "", Jan31, Daily, << >>) }

Ids == 1..MaxId

\* the parents a created task may name: none, or the first task
ParentIds == {NoId, 1}

\* the patches the callers submit
PatchSet ==
  { StatusPatch("completed"),
    StatusPatch("active"),
    Patch({"title"}, [NoTask EXCEPT !.title = <<" ">>]),
    Patch({"priority"}, [NoTask EXCEPT !.priority = "urgent"]),
    Patch({"completedAt"}, [NoTask EXCEPT !.completedAt = 0]) }

\* patches that also carry an identifier
RawPatchSet == PatchSet \cup {Patch({"id"}, [NoTask EXCEPT !.id = 1])}

\* the data and patches of the field-validation runs: titles that need
\* escaping, that are blank, that run past 200 characters; priorities in
\* and out of the enumeration
LongTitle  == [i \in 1..TITLE_MAX |-> "&"]
BlankStart == Spaces(TITLE_MAX) \o <<"a">>

FieldDataSet ==
  { PlainData, BlankData,
    TaskData(<<"&">>, << >>, "urgent", NoDate, NoRecurring, << >>),
    TaskData(<<"a">>, << >>, "high", NoDate, NoRecurring, << >>),
    TaskData(BlankStart, << >>, "low", NoDate, NoRecurring, << >>) }

FieldPatchSet ==
  { Patch({"title"}, [NoTask EXCEPT !.title = <<" ">>]),
    Patch({"title"}, [NoTask EXCEPT !.title = <<"b">>]),
    Patch({"title"}, [NoTask EXCEPT !.title = BlankStart]),
    Patch({"priority"}, [NoTask EXCEPT !.priority = "urgent"]),
    Patch({"priority"}, [NoTask EXCEPT !.priority = "low"]),
    Patch({"title", "priority"}, [NoTask EXCEPT !.title = LongTitle, !.priority = "high"]) }

Apply(op, o) ==
  /\ tasks' = o.tasks
  /\ nextId' = o.nextId
  /\ last' = Call(op, o)
  /\ UNCHANGED <<now, settings, corrupt, app>>

CreateTask(dataSet, parents) ==
  /\ nextId <= MaxId
  /\ \E d \in dataSet, p \in parents :
       Apply("createTask", createTask(tasks, nextId, now, [d EXCEPT !.parentId = p]))

UpdateTask(patchSet) ==
  \E id \in Ids, u \in patchSet :
    Apply("updateTask", updateTask(tasks, nextId, now, id, u))

DeleteTask ==
  \E id \in Ids :
    Apply("deleteTask", deleteTask(tasks, nextId, now, id))

ToggleTaskStatus ==
  \E id \in Ids :
    Apply("toggleTaskStatus", toggleTaskStatus(tasks, nextId, now, id))

CreateSubtask ==
  /\ nextId <= MaxId
  /\ \E parentId \in Ids, d \in TaskDataSet :
       Apply("createSubtask", createSubtask(tasks, nextId, now, parentId, d))

UpdateParentTaskProgress ==
  \E parentId \in Ids :
    Apply("updateParentTaskProgress",
          updateParentTaskProgress(tasks, nextId, now, parentId))

ToggleTaskStatusWithRecurrence ==
  /\ nextId <= MaxId
  /\ \E id \in Ids :
       Apply("toggleTaskStatusWithRecurrence",
             toggleTaskStatusWithRecurrence(tasks, nextId, now, id))

\* the clock moves to the retention boundary and past it
ClockValues == {0, RETENTION_DAYS, MaxNow}

AdvanceTime ==
  /\ \E t \in ClockValues :
       /\ t > now
       /\ now' = t
  /\ UNCHANGED <<tasks, nextId, last, settings, corrupt, app>>

\* the id lists of the bulk runs: in and against list order, a repeated id,
\* an absent id before a present one, the empty list
IdLists == {<< >>, <<1, 2>>, <<2, 1>>, <<1, 1>>, <<MaxId, 1>>, <<1, 2, 3>>}

BulkPatchSet ==
  { StatusPatch("completed"),
    Patch({"title"}, [NoTask EXCEPT !.title = <<"&">>]),
    Patch({"title"}, [NoTask EXCEPT !.title = BlankStart]),
    Patch({"priority"}, [NoTask EXCEPT !.priority = "urgent"]) }

BulkUpdateTasks ==
  \E taskIds \in IdLists, u \in BulkPatchSet :
    Apply("bulkUpdateTasks", bulkUpdateTasks(tasks, nextId, now, taskIds, u))

BulkDeleteTasks ==
  \E taskIds \in IdLists :
    Apply("bulkDeleteTasks", bulkDeleteTasks(tasks, nextId, now, taskIds))

\* the bulk operations over the tasks created
NextBulk ==
  \/ CreateTask({PlainData}, {NoId})
  \/ BulkUpdateTasks
  \/ BulkDeleteTasks

SpecBulk == Init /\ [][NextBulk]_vars

(***************************************************************************)
(* The views: filter, sort and statistics over a collection the store      *)
(* holds, on a day the due dates of its tasks lie around.                  *)
(***************************************************************************)
Jun1  == <<2024, 6, 1>>
Today == DayNumber(Jun1)

Shape(title, priority, status, dueDate) ==
  [title |-> title, priority |-> priority, status |-> status, dueDate |-> dueDate]

\* tasks due today, in 3, 7 and 8 days, yesterday, long ago, and never
ViewShapes ==
  { Shape(<<"a">>, "high", "active", Jun1),
    Shape(<<"A", "b">>, "medium", "active", NoDate),
    Shape(<<"b">>, "low", "completed", <<2024, 5, 31>>),
    Shape(<<"a">>, "high", "active", <<2024, 6, 4>>),
    Shape(<<"b">>, "medium", "active", <<2024, 1, 1>>),
    Shape(<<"a">>, "low", "active", <<2024, 6, 8>>),
    Shape(<<"b">>, "low", "active", <<2024, 6, 9>>) }

ViewTask(id, shape) ==
  [NoTask EXCEPT !.id = id, !.title = shape.title, !.priority = shape.priority,
                 !.status = shape.status, !.dueDate = shape.dueDate,
                 !.completedAt = IF shape.status = "completed" THEN Today - 1 ELSE NoTime]

\* the collections of up to MAX_STORAGE_SIZE tasks
Collections ==
  UNION { { [i \in 1..n |-> ViewTask(i, shapes[i])] : shapes \in [1..n -> ViewShapes] }
          : n \in 0..MAX_STORAGE_SIZE }

InitView ==
  /\ tasks \in Collections
  /\ nextId = Len(tasks) + 1
  /\ now = Today
  /\ last = [op |-> "init", error |-> "", recovery |-> << >>]
  /\ AppStarted

NoFilters == Filters("", "", << >>, NoDate, NoDate, FALSE)

\* the criteria the filter bar may hold: a status, a priority, a search
\* text, and no dates, a date range, or a last date with the overdue flag
FilterSet ==
  { [Filters(status, priority, search, NoDate, NoDate, FALSE)
       EXCEPT !.dateFrom = dates[1], !.dateTo = dates[2], !.showOverdueOnly = dates[3]] :
      status \in {"all", "active"}, priority \in {"", "high"},
      search \in {<< >>, <<"A">>},
      dates \in { <<NoDate, NoDate, FALSE>>, <<Jun1, <<2024, 6, 4>>, FALSE>>,
                  <<NoDate, Jun1, TRUE>> } }

SortTasks ==
  /\ \E sortBy \in {"dueDate", "priority"}, sortOrder \in {"asc", "desc"} :
       last' = [op |-> "sortTasks", sortBy |-> sortBy, sortOrder |-> sortOrder,
                result |-> sortTasks(tasks, sortBy, sortOrder)]
  /\ UNCHANGED <<tasks, nextId, now, settings, corrupt, app>>

FilterTasks ==
  /\ \E filters \in FilterSet, zone \in Zones :
       last' = [op |-> "filterTasks", filters |-> filters, zone |-> zone,
                result |-> filterTasks(tasks, filters, now, zone)]
  /\ UNCHANGED <<tasks, nextId, now, settings, corrupt, app>>

CalculateStatistics ==
  /\ \E zone \in Zones :
       last' = [op |-> "calculateStatistics", zone |-> zone,
                result |-> calculateStatistics(tasks, now, zone)]
  /\ UNCHANGED <<tasks, nextId, now, settings, corrupt, app>>

SpecSort == InitView /\ [][SortTasks]_vars

SpecFilter == InitView /\ [][FilterTasks]_vars

SpecStatistics == InitView /\ [][CalculateStatistics]_vars

(***************************************************************************)
(* The next occurrence of one task, over due dates at the ends of months   *)
(* and the rules a task may carry.                                         *)
(***************************************************************************)
Rule(frequency, interval) == [frequency |-> frequency, interval |-> interval]

RuleSet ==
  {NoRecurring} \cup
  {Rule(frequency, interval) :
     frequency \in {"daily", "weekly", "monthly", "yearly"}, interval \in {1, 2}}

DueDateSet ==
  {NoDate, Jan31, <<2024, 2, 28>>, <<2024, 3, 1>>, <<2024, 12, 31>>, <<2025, 1, 1>>}

InitOccurrence ==
  /\ \E dueDate \in DueDateSet, recurring \in RuleSet :
       tasks = <<[ViewTask(1, Shape(<<"a">>, "medium", "active", dueDate))
                    EXCEPT !.recurring = recurring]>>
  /\ nextId = 2
  /\ now \in {Today, Today + 1}
  /\ last = [op |-> "init", error |-> "", recovery |-> << >>]
  /\ AppStarted

CalculateNextOccurrence ==
  /\ \E zone \in Zones :
       last' = [op |-> "calculateNextOccurrence", zone |-> zone,
                result |-> calculateNextOccurrenceAt(tasks[1], zone)]
  /\ UNCHANGED <<tasks, nextId, now, settings, corrupt, app>>

SpecOccurrence == InitOccurrence /\ [][CalculateNextOccurrence]_vars

\* the tasks of an import file: one under the identifier of the first task
\* created here, two under identifiers of another installation
FileTask(id) == ViewTask(id, Shape(<<"f">>, "medium", "active", NoDate))

ImportFiles ==
  { << >>, <<FileTask(1)>>, <<FileTask(MaxId + 1)>>,
    <<FileTask(1), FileTask(MaxId + 1)>>,
    <<FileTask(MaxId + 1), FileTask(MaxId + 2)>> }

ImportTasks ==
  \E file \in ImportFiles :
    Apply("importTasks", importTasks(tasks, nextId, now, file))

\* imports into a collection that creates and deletes keep changing
NextImport ==
  \/ CreateTask({PlainData}, {NoId})
  \/ DeleteTask
  \/ ImportTasks

SpecImport == Init /\ [][NextImport]_vars

\* the values of the filter bar and the sort selector
StatusFilters   == {"all", "active", "completed"}
PriorityFilters == {"all", "high"}
SortFields      == {"dueDate", "priority"}

\* a handler that changed the module state and saved the settings
Persist(op, state, saved) ==
  /\ app' = state
  /\ tasks' = saved.tasks
  /\ settings' = saved.settings
  /\ last' = [op |-> op, error |-> "", recovery |-> saved.recovery]
  /\ UNCHANGED <<nextId, now, corrupt>>

HandleStatusFilterChange ==
  /\ ~corrupt
  /\ \E filter \in StatusFilters, refused \in BOOLEAN :
       LET state == [app EXCEPT !.currentFilter = filter]
       IN Persist("handleStatusFilterChange", state,
                  persistSettings(tasks, settings, state, now, refused))

HandlePriorityFilterChange ==
  /\ ~corrupt
  /\ \E value \in PriorityFilters :
       /\ app' = [app EXCEPT !.currentPriorityFilter = value]
       /\ last' = [op |-> "handlePriorityFilterChange", error |-> "", recovery |-> << >>]
  /\ UNCHANGED <<tasks, nextId, now, settings, corrupt>>

HandleSortChange ==
  /\ ~corrupt
  /\ \E value \in SortFields, refused \in BOOLEAN :
       LET state == [app EXCEPT !.currentSortBy = value]
       IN Persist("handleSortChange", state,
                  persistSettings(tasks, settings, state, now, refused))

\* the stored string is damaged while the application is closed
CorruptBlob ==
  /\ ~corrupt
  /\ corrupt' = TRUE
  /\ last' = [op |-> "corrupt", error |-> "", recovery |-> << >>]
  /\ UNCHANGED <<tasks, nextId, now, settings, app>>

\* the application is loaded again
InitApp ==
  \E shouldReset \in BOOLEAN :
    LET o == init(TRUE, tasks, settings, corrupt, shouldReset)
    IN /\ tasks' = o.started.tasks
       /\ settings' = o.started.settings
       /\ corrupt' = o.started.corrupt
       /\ app' = o.app
       /\ last' = [op |-> "init", error |-> o.started.error, recovery |-> << >>]
       /\ UNCHANGED <<nextId, now>>

\* the application over a store whose tasks come and go
NextApp ==
  \/ ~corrupt /\ CreateTask({PlainData}, {NoId})
  \/ ~corrupt /\ ToggleTaskStatus
  \/ HandleStatusFilterChange
  \/ HandlePriorityFilterChange
  \/ HandleSortChange
  \/ CorruptBlob
  \/ InitApp

SpecApp == Init /\ [][NextApp]_vars

HandleToggleTaskStatus ==
  /\ nextId <= MaxId
  /\ \E taskId \in Ids :
       Apply("handleToggleTaskStatus",
             handleToggleTaskStatus(tasks, nextId, now, taskId))

\* the check boxes of tasks and subtasks while parents are deleted
NextSubtasks ==
  \/ CreateTask({PlainData}, ParentIds)
  \/ DeleteTask
  \/ HandleToggleTaskStatus

SpecSubtasks == Init /\ [][NextSubtasks]_vars

\* getTaskOrder after a drop: the rows on display under a status filter,
\* turned around
DisplayOrders(ts) ==
  { Reverse([i \in DOMAIN shown |-> shown[i].id]) :
      shown \in { SelectSeq(ts, LAMBDA t : filter = "all" \/ t.status = filter) :
                   filter \in StatusFilters } }

\* order lists naming an identifier twice, an identifier no task has, and
\* fewer identifiers than there are tasks
OrderLists == {<<2, 1>>, <<1, 1>>, <<MaxId + 1, 2>>, <<3>>, <<3, 1, 2>>}

HandleTasksReordered ==
  \E newOrder \in DisplayOrders(tasks) \cup OrderLists :
    Apply("handleTasksReordered",
          handleTasksReordered(tasks, nextId, now, newOrder))

\* rows dragged while tasks are created, completed and patched
NextReorder ==
  \/ CreateTask({PlainData}, {NoId})
  \/ UpdateTask(RawPatchSet)
  \/ HandleTasksReordered

SpecReorder == Init /\ [][NextReorder]_vars

\* every store operation, on the callers' data and patches
Next ==
  \/ CreateTask(TaskDataSet, ParentIds)
  \/ UpdateTask(PatchSet)
  \/ DeleteTask
  \/ ToggleTaskStatus
  \/ CreateSubtask
  \/ UpdateParentTaskProgress
  \/ ToggleTaskStatusWithRecurrence

Spec == Init /\ [][Next]_vars

\* recurrence generation over the rules a task may carry
NextRecurrence ==
  \/ CreateTask(RecurrenceDataSet, ParentIds)
  \/ ToggleTaskStatusWithRecurrence

SpecRecurrence == Init /\ [][NextRecurrence]_vars

\* updates whose patch may carry any field of a task
NextPatch ==
  \/ CreateTask({PlainData}, ParentIds)
  \/ UpdateTask(RawPatchSet)
  \/ DeleteTask

SpecPatch == Init /\ [][NextPatch]_vars

\* saves against the capacity of the blob while the clock runs
NextQuota ==
  \/ CreateTask({PlainData}, {NoId})
  \/ ToggleTaskStatus
  \/ AdvanceTime

SpecQuota == Init /\ [][NextQuota]_vars

\* creates and updates over the titles and priorities a caller may submit
NextFields ==
  \/ CreateTask(FieldDataSet, {NoId})
  \/ UpdateTask(FieldPatchSet)

SpecFields == Init /\ [][NextFields]_vars

(***************************************************************************)
(* Properties.  A property of an operation is stated over the outcome of   *)
(* the operation on the persisted collection of every reachable state.     *)
(***************************************************************************)
IdsOf(ts) == {ts[i].id : i \in DOMAIN ts}

Holds(ts, task) == \E i \in DOMAIN ts : ts[i] = task

AllData == TaskDataSet \cup RecurrenceDataSet

\* C1: after createSubtask(parentId, data) returns for an existing parent,
\* the persisted collection holds the returned subtask with that parentId,
\* the parent's subtasks list holds its id and getSubtasks(parentId)
\* includes it.
C1_SubtaskPersisted ==
  \A parentId \in IdsOf(tasks), d \in TaskDataSet :
    LET o == createSubtask(tasks, nextId, now, parentId, d)
        subtasks == getSubtasks(o.tasks, parentId)
        parent == getTaskById(o.tasks, parentId)
    IN o.error = "" =>
         /\ o.result.parentId = parentId
         /\ Holds(o.tasks, o.result)
         /\ \E k \in DOMAIN parent.subtasks : parent.subtasks[k] = o.result.id
         /\ Holds(subtasks, o.result)

\* C2: when create, update, delete, createSubtask, toggleStatus or
\* toggleStatusWithRecurrence raises a validation or not-found error, the
\* persisted collection is the one before the call.
C2_ErrorPersistsNothing ==
  /\ \A d \in AllData, p \in ParentIds :
       LET o == createTask(tasks, nextId, now, [d EXCEPT !.parentId = p])
       IN o.error # "" => o.tasks = tasks
  /\ \A id \in Ids, u \in RawPatchSet :
       LET o == updateTask(tasks, nextId, now, id, u)
       IN o.error # "" => o.tasks = tasks
  /\ \A id \in Ids :
       /\ deleteTask(tasks, nextId, now, id).error # ""
            => deleteTask(tasks, nextId, now, id).tasks = tasks
       /\ toggleTaskStatus(tasks, nextId, now, id).error # ""
            => toggleTaskStatus(tasks, nextId, now, id).tasks = tasks
       /\ toggleTaskStatusWithRecurrence(tasks, nextId, now, id).error # ""
            => toggleTaskStatusWithRecurrence(tasks, nextId, now, id).tasks = tasks
  /\ \A id \in Ids, d \in AllData :
       LET o == createSubtask(tasks, nextId, now, id, d)
       IN o.error # "" => o.tasks = tasks

\* C3: in every reachable state of the collection each task has completedAt
\* non-null if and only if its status is completed.
C3_CompletedAtIffCompleted ==
  \A i \in DOMAIN tasks :
    (tasks[i].completedAt # NoTime) <=> (tasks[i].status = "completed")

C5_IdentifiersUniqueAndFixed ==
  /\ \A i, j \in DOMAIN tasks : tasks[i].id = tasks[j].id => i = j
  /\ \A id \in IdsOf(tasks), u \in RawPatchSet :
       LET o == updateTask(tasks, nextId, now, id, u)
       IN o.error = "" => o.result.id = id

\* a recurrence rule createNextRecurrence acts on
RecurrenceDue(task) ==
  /\ task.recurring # NoRecurring
  /\ task.recurring.frequency \in {"daily", "weekly", "monthly"}
  /\ task.dueDate # NoDate

\* C6: toggleStatusWithRecurrence(id) adds a new task to the collection if
\* and only if the toggled task went from active to completed, carries a
\* recurrence rule with a recognised frequency and a dueDate, and has no
\* parentId; in every other case nextTask is absent and the collection
\* gains no task.
C6_RecurrenceIffCompletedTopLevelRule ==
  \A id \in IdsOf(tasks) :
    LET task == getTaskById(tasks, id)
        o == toggleTaskStatusWithRecurrence(tasks, nextId, now, id)
        due == task.status = "active" /\ RecurrenceDue(task) /\ task.parentId = NoId
        gained == \E i \in DOMAIN o.tasks : o.tasks[i].id \notin IdsOf(tasks)
    IN o.error = "" =>
         /\ due <=> gained
         /\ ~due => o.next = NoTask

\* C7: the task created by createNextRecurrence(task) has the title,
\* description, priority, tags and recurring of the source task, dueDate =
\* calculateNextOccurrence(task), status active, completedAt null, another
\* identifier, no parentId and an empty subtasks list.
C7_RecurrenceClonesSource ==
  \A i \in DOMAIN tasks :
    LET task == tasks[i]
        o == createNextRecurrence(tasks, nextId, now, task)
    IN (o.error = "" /\ o.result # NoTask) =>
         /\ o.result.title = task.title
         /\ o.result.description = task.description
         /\ o.result.priority = task.priority
         /\ o.result.tags = task.tags
         /\ o.result.recurring = task.recurring
         /\ o.result.dueDate = calculateNextOccurrence(task)
         /\ o.result.status = "active"
         /\ o.result.completedAt = NoTime
         /\ o.result.id # task.id
         /\ o.result.parentId = NoId
         /\ o.result.subtasks = << >>

C9_RecoveryStep ==
  LET o == createTask(tasks, nextId, now, PlainData)
      old == {i \in DOMAIN tasks :
                /\ tasks[i].status = "completed"
                /\ tasks[i].completedAt # NoTime
                /\ now - tasks[i].completedAt > RETENTION_DAYS}
      keep == IF old # {} THEN DOMAIN tasks \ old
              ELSE {i \in DOMAIN tasks : tasks[i].status # "completed"}
      Rank(i) == Cardinality({j \in keep : j <= i})
  IN o.recovery # << >> =>
       /\ Len(o.recovery) = 1
       /\ o.recovery = IF old # {} THEN <<"strategy1">> ELSE <<"strategy2">>
       /\ Len(o.tasks) = Cardinality(keep)
       /\ \A i \in keep : o.tasks[Rank(i)] = tasks[i]

\* C10: delete(id) for an existing id removes the task with that id and
\* leaves every other task unchanged (its subtasks list and parentId
\* included) and in the same relative order; delete of an absent id fails
\* with not-found and changes nothing.
C10_DeleteFrame ==
  \A id \in Ids :
    LET o == deleteTask(tasks, nextId, now, id)
        keep == {i \in DOMAIN tasks : tasks[i].id # id}
        Rank(i) == Cardinality({j \in keep : j <= i})
    IN IF id \in IdsOf(tasks)
       THEN /\ o.error = ""
            /\ id \notin IdsOf(o.tasks)
            /\ Len(o.tasks) = Cardinality(keep)
            /\ \A i \in keep : o.tasks[Rank(i)] = tasks[i]
            /\ (\A i, j \in DOMAIN tasks : tasks[i].id = tasks[j].id => i = j)
                 => Len(o.tasks) = Len(tasks) - 1
       ELSE o.error = "Task not found" /\ o.tasks = tasks

\* C10 happens: a delete removed a parent and left its child, which still
\* names it
C10_Witness ==
  /\ last.op = "deleteTask"
  /\ last.error = ""
  /\ \E i \in DOMAIN tasks :
       tasks[i].parentId # NoId /\ tasks[i].parentId \notin IdsOf(tasks)

\* C11: every task stored by create or update has a title of between 1 and
\* 200 characters: a title that is empty after trimming is rejected, and the
\* stored title, which equals truncate(sanitize(title), 200), is never empty
\* and never longer than 200 characters.
C11_StoredTitleLength ==
  /\ \A i \in DOMAIN tasks : Len(tasks[i].title) \in 1..200
  /\ \A d \in FieldDataSet :
       LET o == createTask(tasks, nextId, now, d)
       IN IF Len(Trim(d.title)) = 0
          THEN o.error # ""
          ELSE /\ o.error = ""
               /\ o.result.title = truncate(sanitizeString(d.title), 200)
               /\ Len(o.result.title) \in 1..200
  /\ \A id \in IdsOf(tasks), u \in FieldPatchSet :
       LET o == updateTask(tasks, nextId, now, id, u)
       IN "title" \in u.has =>
            IF Len(Trim(u.fields.title)) = 0
            THEN o.error # ""
            ELSE /\ o.error = ""
                 /\ o.result.title = truncate(sanitizeString(u.fields.title), 200)
                 /\ Len(o.result.title) \in 1..200

Rank(p) == CASE p = "high" -> 3 [] p = "medium" -> 2 [] p = "low" -> 1

PrioritiesOf(ts) == [i \in DOMAIN ts |-> ts[i].priority]

\* C13 (as stated): sort(tasks, "priority", "asc") orders tasks by rank
\* from low to high and sort(tasks, "priority", "desc") from high to low: for
\* three tasks with priorities high, medium, low, asc yields [low, medium,
\* high] and desc yields [high, medium, low].
C13_PriorityAscLowFirst ==
  LET asc  == sortTasks(tasks, "priority", "asc")
      desc == sortTasks(tasks, "priority", "desc")
  IN /\ \A i, j \in DOMAIN asc : i < j => Rank(asc[i].priority) <= Rank(asc[j].priority)
     /\ \A i, j \in DOMAIN desc : i < j => Rank(desc[i].priority) >= Rank(desc[j].priority)
     /\ (Len(tasks) = 3 /\ {tasks[i].priority : i \in DOMAIN tasks} = {"high", "medium", "low"})
          => /\ PrioritiesOf(asc) = <<"low", "medium", "high">>
             /\ PrioritiesOf(desc) = <<"high", "medium", "low">>

\* C13 (amended): sort(tasks, "priority", "asc") orders tasks by rank from
\* high to low and sort(tasks, "priority", "desc") from low to high: for
\* three tasks with priorities high, medium, low, asc yields [high, medium,
\* low] and desc yields [low, medium, high].
C13_PriorityAscHighFirst ==
  LET asc  == sortTasks(tasks, "priority", "asc")
      desc == sortTasks(tasks, "priority", "desc")
  IN /\ \A i, j \in DOMAIN asc : i < j => Rank(asc[i].priority) >= Rank(asc[j].priority)
     /\ \A i, j \in DOMAIN desc : i < j => Rank(desc[i].priority) <= Rank(desc[j].priority)
     /\ (Len(tasks) = 3 /\ {tasks[i].priority : i \in DOMAIN tasks} = {"high", "medium", "low"})
          => /\ PrioritiesOf(asc) = <<"high", "medium", "low">>
             /\ PrioritiesOf(desc) = <<"low", "medium", "high">>

\* C13 happens: three tasks of priorities low, medium, high, in that order,
\* were sorted by priority, ascending
C13_Witness ==
  /\ last.op = "sortTasks"
  /\ last.sortBy = "priority"
  /\ last.sortOrder = "asc"
  /\ PrioritiesOf(tasks) = <<"low", "medium", "high">>
  /\ PrioritiesOf(last.result) = <<"high", "medium", "low">>

\* C14 (as stated): for any fixed task collection, including collections
\* where several tasks share a priority, the sequence returned by
\* sort(tasks, "priority", "desc") is the exact reverse of the sequence
\* returned by sort(tasks, "priority", "asc").
C14_DescIsReverseOfAsc ==
  sortTasks(tasks, "priority", "desc") = Reverse(sortTasks(tasks, "priority", "asc"))

\* C14 (amended): for any fixed collection of tasks with priorities low,
\* medium or high, the priorities of sort(tasks, "priority", "desc") are the
\* exact reverse of the priorities of sort(tasks, "priority", "asc"); tasks
\* that share a priority keep their input order in both results, so the two
\* task sequences are exact reverses of each other when no two tasks share a
\* priority.
C14_DescReversesPriorities ==
  LET asc  == sortTasks(tasks, "priority", "asc")
      desc == sortTasks(tasks, "priority", "desc")
      InInputOrder(s) ==
        \A i, j \in DOMAIN s :
          (i < j /\ s[i].priority = s[j].priority) => s[i].id < s[j].id
  IN /\ PrioritiesOf(desc) = Reverse(PrioritiesOf(asc))
     /\ InInputOrder(asc)
     /\ InInputOrder(desc)
     /\ (\A i, j \in DOMAIN tasks : tasks[i].priority = tasks[j].priority => i = j)
          => desc = Reverse(asc)

\* C14 happens: a collection in which two tasks share a priority was
\* sorted by priority, descending
C14_Witness ==
  /\ last.op = "sortTasks"
  /\ last.sortBy = "priority"
  /\ last.sortOrder = "desc"
  /\ \E i, j, k \in DOMAIN tasks :
       /\ i < j
       /\ tasks[i].priority = tasks[j].priority
       /\ tasks[k].priority # tasks[i].priority
  /\ last.result # Reverse(sortTasks(tasks, "priority", "asc"))

\* C15: sort(tasks, "dueDate", order) returns a permutation of its input in
\* which every task lacking a due date comes after every task that has one,
\* for both order = asc and order = desc; tasks with due dates are in
\* chronological order for asc and reverse chronological order for desc.
C15_DueDateSort ==
  \A order \in {"asc", "desc"} :
    LET s == sortTasks(tasks, "dueDate", order)
    IN /\ Len(s) = Len(tasks)
       /\ \A i \in DOMAIN tasks : Cardinality({k \in DOMAIN s : s[k] = tasks[i]}) = 1
       /\ \A i, j \in DOMAIN s :
            (s[i].dueDate = NoDate /\ s[j].dueDate # NoDate) => i > j
       /\ \A i, j \in DOMAIN s :
            (i < j /\ s[i].dueDate # NoDate /\ s[j].dueDate # NoDate) =>
              IF order = "asc"
              THEN DayNumber(s[i].dueDate) <= DayNumber(s[j].dueDate)
              ELSE DayNumber(s[i].dueDate) >= DayNumber(s[j].dueDate)

\* C15 happens: a collection that lists a task without a due date before
\* two tasks with different due dates was sorted by due date, descending
C15_Witness ==
  /\ last.op = "sortTasks"
  /\ last.sortBy = "dueDate"
  /\ last.sortOrder = "desc"
  /\ Len(tasks) = 3
  /\ tasks[1].dueDate = NoDate
  /\ tasks[2].dueDate # NoDate /\ tasks[3].dueDate # NoDate
  /\ DayNumber(tasks[2].dueDate) < DayNumber(tasks[3].dueDate)
  /\ last.result = <<tasks[3], tasks[2], tasks[1]>>

\* the criteria of a filter record
Criteria == {"status", "priority", "search", "dateFrom", "dateTo", "showOverdueOnly"}

\* the filter that holds criterion c of filters and no other
Only(filters, c) == [NoFilters EXCEPT ![c] = filters[c]]

\* C16: for any task collection and any combination of status, priority,
\* search, dateFrom, dateTo and overdue-only criteria, filter(tasks, criteria)
\* returns exactly the tasks that are in the result of every
\* single-criterion filter (the intersection), in their original relative
\* order.
C16_FilterIsIntersection ==
  last.op = "filterTasks" =>
    LET Single(c) == filterTasks(tasks, Only(last.filters, c), now, last.zone)
        InAll(t)  == \A c \in Criteria : Holds(Single(c), t)
    IN last.result = SelectSeq(tasks, InAll)

\* C16 happens: a filter with a status, a search text, a date range and the
\* overdue flag kept some tasks of the collection and dropped others
C16_Witness ==
  /\ last.op = "filterTasks"
  /\ last.filters.status = "active"
  /\ last.filters.search # << >>
  /\ last.filters.dateTo # NoDate
  /\ last.filters.showOverdueOnly
  /\ last.zone < 0
  /\ Len(last.result) > 0
  /\ Len(last.result) < Len(tasks)

\* C17: calculateStatistics counts each task at most once per counter:
\* overdue equals the number of active tasks due before today, dueToday the
\* number of active tasks due today, dueThisWeek the number of active tasks
\* due from today to 7 days out, and dueSoon the number of active tasks due
\* today or within the next 3 days; an active task due in the past is counted
\* once in overdue and not at all in dueToday.
C17_StatisticsCounters ==
  \A zone \in Zones :
    LET stats == calculateStatistics(tasks, now, zone)
        Due(from, to) ==
          Cardinality({i \in DOMAIN tasks :
                         /\ tasks[i].status = "active"
                         /\ tasks[i].dueDate # NoDate
                         /\ DayNumber(tasks[i].dueDate) >= from
                         /\ DayNumber(tasks[i].dueDate) <= to})
    IN /\ stats.overdue = Due(0, now - 1)
       /\ stats.dueToday = Due(now, now)
       /\ stats.dueThisWeek = Due(now, now + 7)
       /\ stats.dueSoon = Due(now, now + 3)

\* C18: calculateNextOccurrence returns absent when the task has no
\* recurrence rule, no dueDate, or an unrecognised frequency; otherwise it
\* returns dueDate + interval days (daily), dueDate + 7 x interval days
\* (weekly) or dueDate + interval calendar months (monthly, a day past the
\* end of the month rolling over as the host's Date does), computed from the
\* task's dueDate and independent of today's date, and for interval >= 1
\* the result is strictly later than dueDate.
C18_NextOccurrence ==
  \A zone \in Zones :
    LET task == tasks[1]
        due  == task.dueDate
        rule == task.recurring
        next == calculateNextOccurrenceAt(task, zone)
    IN IF rule = NoRecurring \/ due = NoDate
          \/ rule.frequency \notin {"daily", "weekly", "monthly"}
       THEN next = NoDate
       ELSE /\ next # NoDate
            /\ rule.frequency = "daily" => DayNumber(next) = DayNumber(due) + rule.interval
            /\ rule.frequency = "weekly" => DayNumber(next) = DayNumber(due) + 7 * rule.interval
            /\ rule.frequency = "monthly" =>
                 next = NormalizeDate(due[1], due[2] + rule.interval, due[3])
            /\ rule.interval >= 1 => DayNumber(next) > DayNumber(due)

\* C19: for a monthly recurrence with interval 1, the next occurrence of a
\* task due on the last day of January falls in February:
\* calculateNextOccurrence({dueDate: "2024-01-31", recurring: {frequency:
\* "monthly", interval: 1}}) yields a date in February 2024.
C19_JanuaryEndToFebruary ==
  \A zone \in Zones :
    LET next == calculateNextOccurrenceAt(tasks[1], zone)
    IN (tasks[1].dueDate = <<2024, 1, 31>> /\ tasks[1].recurring = Rule("monthly", 1))
         => (next # NoDate /\ next[1] = 2024 /\ next[2] = 2)

\* the single operations update(id, updates), one id after the other: the
\* collection they leave and the number of them that succeeded
RECURSIVE EachUpdate(_, _, _)
EachUpdate(ts, taskIds, updates) ==
  IF taskIds = << >> THEN [tasks |-> ts, count |-> 0]
  ELSE LET o    == updateTask(ts, nextId, now, Head(taskIds), updates)
           rest == EachUpdate(o.tasks, Tail(taskIds), updates)
       IN [rest EXCEPT !.count = @ + (IF o.error = "" THEN 1 ELSE 0)]

RECURSIVE EachDelete(_, _)
EachDelete(ts, taskIds) ==
  IF taskIds = << >> THEN [tasks |-> ts, count |-> 0]
  ELSE LET o    == deleteTask(ts, nextId, now, Head(taskIds))
           rest == EachDelete(o.tasks, Tail(taskIds))
       IN [rest EXCEPT !.count = @ + (IF o.error = "" THEN 1 ELSE 0)]

\* C20: bulkUpdateTasks and bulkDeleteTasks never raise: for any list of ids
\* (including absent or repeated ids) and any patch they apply the operation
\* to each id in list order, keep processing the ids that follow a failing
\* one, and return exactly the number of ids for which the single operation
\* succeeded.
C20_BulkAppliesEachInOrder ==
  /\ \A taskIds \in IdLists, u \in BulkPatchSet :
       LET o    == bulkUpdateTasks(tasks, nextId, now, taskIds, u)
           each == EachUpdate(tasks, taskIds, u)
       IN o.error = "" /\ o.tasks = each.tasks /\ o.result = each.count
  /\ \A taskIds \in IdLists :
       LET o    == bulkDeleteTasks(tasks, nextId, now, taskIds)
           each == EachDelete(tasks, taskIds)
       IN o.error = "" /\ o.tasks = each.tasks /\ o.result = each.count

\* C21: importTasks adds exactly the tasks of the file whose identifier is
\* not present, after the existing tasks and leaving those unchanged, and
\* returns the number of tasks added.
C21_ImportAddsNewOnly ==
  \A file \in ImportFiles :
    LET o     == importTasks(tasks, nextId, now, file)
        added == SelectSeq(file, LAMBDA t : t.id \notin IdsOf(tasks))
    IN /\ o.error = ""
       /\ o.tasks = tasks \o added
       /\ o.result = Len(added)

\* C22: when the stored string does not parse at start-up, initStorage
\* offers a reset; accepted, the blob becomes the default structure
\* (current version, no tasks, default settings), which is returned;
\* refused, the error is raised and the blob is left as it was.
C22_CorruptBlobResetOrRaise ==
  corrupt =>
    LET accepted == initStorage(TRUE, tasks, settings, corrupt, TRUE)
        refused  == initStorage(TRUE, tasks, settings, corrupt, FALSE)
        default  == [version |-> "1.0.0", tasks |-> << >>,
                     settings |-> [lastFilter |-> "all", sortBy |-> "dueDate",
                                   sortOrder |-> "asc"]]
    IN /\ accepted.error = ""
       /\ accepted.result = default
       /\ ~accepted.corrupt
       /\ accepted.tasks = default.tasks
       /\ accepted.settings = default.settings
       /\ refused.error # ""
       /\ refused.corrupt
       /\ refused.tasks = tasks
       /\ refused.settings = settings

\* a start-up on a damaged blob holding tasks and changed settings, the
\* reset refused
C22_Witness ==
  /\ corrupt
  /\ tasks # << >>
  /\ settings # DefaultSettings
  /\ last.op = "init"
  /\ last.error # ""

\* C24: after the user changes the status filter, the priority filter or
\* the sort field, loading the application again restores the same status
\* filter, priority filter and sort field.
C24_ViewSettingsRestored ==
  ~corrupt =>
    LET reloaded == init(TRUE, tasks, settings, corrupt, FALSE).app
    IN /\ reloaded.currentFilter = app.currentFilter
       /\ reloaded.currentPriorityFilter = app.currentPriorityFilter
       /\ reloaded.currentSortBy = app.currentSortBy

\* C28: a save of the settings leaves the persisted tasks unchanged and a
\* save of the tasks leaves the persisted settings unchanged, a write
\* refused for capacity included.
C28_SettingsAndTasksIndependent ==
  [][ /\ last'.op \in {"handleStatusFilterChange", "handleSortChange"}
           => tasks' = tasks
      /\ last'.op \in {"createTask", "toggleTaskStatus"}
           => settings' = settings ]_vars

\* C23: a create followed by the delete of the returned task's id leaves
\* the collection with the same tasks in the same order as before the
\* create.
C23_CreateThenDeleteRestores ==
  LET created == createTask(tasks, nextId, now, PlainData)
      deleted == deleteTask(created.tasks, created.nextId, now, created.result.id)
  IN created.error = "" => (deleted.error = "" /\ deleted.tasks = tasks)

\* the operations a browsing context issues on the shared blob
ContextOps ==
  {<<"create", NoId>>} \cup
  {<<op, id>> : op \in {"update", "delete", "toggle"}, id \in Ids}

Issue(op, ts, nid, clock) ==
  CASE op[1] = "create" -> createTask(ts, nid, clock, PlainData)
    [] op[1] = "update" ->
         updateTask(ts, nid, clock, op[2],
                    Patch({"priority"}, [NoTask EXCEPT !.priority = "high"]))
    [] op[1] = "delete" -> deleteTask(ts, nid, clock, op[2])
    [] op[1] = "toggle" -> toggleTaskStatus(ts, nid, clock, op[2])

\* C25: every operation reads the persisted collection afresh and writes
\* it back with its own change only, so when whole operations of two
\* browsing contexts interleave, the change of an operation that
\* completed is still there after an operation of the other context on
\* another task.
C25_NoLostUpdate ==
  \A a \in ContextOps, b \in ContextOps :
    LET first  == Issue(a, tasks, nextId, now)
        second == Issue(b, first.tasks, first.nextId, now)
        id     == IF a[1] = "create" THEN nextId ELSE a[2]
    IN (first.error = "" /\ (b[1] = "create" \/ b[2] # id))
         => IF a[1] = "delete"
            THEN id \notin IdsOf(second.tasks)
            ELSE getTaskById(second.tasks, id) = first.result

\* C26: when create or update returns a task without raising, the
\* persisted collection read next holds that task with the values
\* returned, a write that hit the capacity limit included.
C26_ReturnedTaskIsPersisted ==
  /\ LET created == createTask(tasks, nextId, now, PlainData)
     IN created.error = ""
          => getTaskById(created.tasks, created.result.id) = created.result
  /\ \A id \in Ids, u \in PatchSet :
       LET updated == updateTask(tasks, nextId, now, id, u)
       IN updated.error = "" => getTaskById(updated.tasks, id) = updated.result

\* C27: for a recurring top-level task, completing it, reopening it and
\* completing it again through toggleTaskStatusWithRecurrence leaves at
\* most one generated occurrence with the next due date in the collection.
C27_AtMostOneSuccessor ==
  \A id \in Ids :
    LET completed == toggleTaskStatusWithRecurrence(tasks, nextId, now, id)
        reopened  == toggleTaskStatusWithRecurrence(completed.tasks, completed.nextId, now, id)
        again     == toggleTaskStatusWithRecurrence(reopened.tasks, reopened.nextId, now, id)
        generated == {i \in DOMAIN again.tasks :
                        /\ again.tasks[i].id \notin IdsOf(tasks)
                        /\ again.tasks[i].dueDate = completed.next.dueDate}
    IN (completed.error = "" /\ completed.next # NoTask)
         => Cardinality(generated) <= 1

\* C29: updateParentTaskProgress raises for no parent id on any collection
\* the store operations reach, a deleted parent whose subtasks remain
\* included, and the toggle handler reports no error when an orphaned
\* subtask is toggled.
C29_ParentProgressNeverRaises ==
  /\ \A parentId \in Ids :
       updateParentTaskProgress(tasks, nextId, now, parentId).error = ""
  /\ \A i \in DOMAIN tasks :
       (tasks[i].parentId # NoId /\ tasks[i].parentId \notin IdsOf(tasks))
         => handleToggleTaskStatus(tasks, nextId, now, tasks[i].id).error = ""

\* C30: for any order list (unknown, repeated or missing identifiers),
\* reorderTasks returns a permutation of the tasks: the tasks the list
\* names first, in the order of the list, then the others in their
\* original relative order, none lost, duplicated or modified; so the
\* reorder of a filtered view saves every task that was not displayed.
C30_ReorderIsPermutation ==
  \A taskOrder \in DisplayOrders(tasks) \cup OrderLists :
    LET reordered == reorderTasks(tasks, taskOrder)
        hits      == {i \in DOMAIN taskOrder :
                        /\ taskOrder[i] \in IdsOf(tasks)
                        /\ \A j \in 1..(i - 1) : taskOrder[j] # taskOrder[i]}
        others    == SelectSeq(tasks, LAMBDA t :
                                 \A i \in DOMAIN taskOrder : taskOrder[i] # t.id)
        saved     == handleTasksReordered(tasks, nextId, now, taskOrder)
    IN /\ Len(reordered) = Len(tasks)
       /\ \A i \in DOMAIN tasks :
            Cardinality({j \in DOMAIN reordered : reordered[j] = tasks[i]})
              = Cardinality({j \in DOMAIN tasks : tasks[j] = tasks[i]})
       /\ \A k \in 1..Cardinality(hits) :
            \E i \in hits :
              /\ Cardinality({j \in hits : j < i}) = k - 1
              /\ reordered[k].id = taskOrder[i]
       /\ SubSeq(reordered, Cardinality(hits) + 1, Len(reordered)) = others
       /\ \A i \in DOMAIN tasks : \E j \in DOMAIN saved.tasks : saved.tasks[j] = tasks[i]

====
